---------------------------- MODULE Spec2Model ----------------------------
(***************************************************************************)
(* bluetrack: reads a list of network access rules from a YAML file and    *)
(* writes a Terraform security-group file, an LXC proxy shell script and   *)
(* (in the newer program) an LXD profile.                                  *)
(*                                                                         *)
(* Two programs of the repository are modelled, selected by `program`:     *)
(*   "main" : src/main.go, lines 1-188 (Terraform + LXC script)            *)
(*   "lxd"  : src/unnamed/part_000     (Terraform + LXC script + LXD)     *)
(* The older listing appended to src/main.go from line 190 is not          *)
(* modelled.                                                               *)
(* Strings the code only copies are TLA+ strings; strings the code splits  *)
(* (CIDR blocks) are sequences of one-character strings.                   *)
(***************************************************************************)
EXTENDS Integers, Sequences, FiniteSets, TLC

\* Longest rule list read from the input file.
MaxRules == 2

-----------------------------------------------------------------------------
(* Strings and formatting                                                  *)

Digit(d) ==
  CASE d = 0 -> "0" [] d = 1 -> "1" [] d = 2 -> "2" [] d = 3 -> "3"
    [] d = 4 -> "4" [] d = 5 -> "5" [] d = 6 -> "6" [] d = 7 -> "7"
    [] d = 8 -> "8" [] d = 9 -> "9"

RECURSIVE Utoa(_)
Utoa(n) == IF n < 10 THEN Digit(n) ELSE Utoa(n \div 10) \o Digit(n % 10)

\* fmt's %d verb on an int
Itoa(n) == IF n < 0 THEN "-" \o Utoa(-n) ELSE Utoa(n)

\* a sequence of one-character strings as one string
RECURSIVE Str(_)
Str(cs) == IF cs = <<>> THEN "" ELSE Head(cs) \o Str(Tail(cs))

\* strings.Split(s, "/")[0]: the characters before the first "/" (all of s
\* when it holds none)
RECURSIVE splitAtSlash(_)
splitAtSlash(s) ==
  IF s = <<>> \/ Head(s) = "/" THEN <<>>
  ELSE <<Head(s)>> \o splitAtSlash(Tail(s))

\* strings.Join(elems, sep), the template function "join"
RECURSIVE join(_, _)
join(elems, sep) ==
  IF elems = <<>> THEN ""
  ELSE IF Len(elems) = 1 THEN Str(elems[1])
  ELSE Str(elems[1]) \o sep \o join(Tail(elems), sep)

RECURSIVE Concat(_)
Concat(ss) == IF ss = <<>> THEN "" ELSE Head(ss) \o Concat(Tail(ss))

-----------------------------------------------------------------------------
(* The input file                                                          *)

Cidr10   == <<"1","0",".","0",".","0",".","0","/","2","4">>
CidrAny  == <<"0",".","0",".","0",".","0","/","0">>
CidrHost == <<"h","o","s","t">>

PortName(f, t) == IF f = 22 THEN "ssh" ELSE "web"

YamlRule(n, ty, f, t, p, c) ==
  [name |-> n, type |-> ty, from_port |-> f, to_port |-> t, protocol |-> p,
   cidr_blocks |-> c, description |-> "d"]

WithForward(y, fwd) ==
  [k \in DOMAIN y \cup {"lxc_forward"} |->
     IF k = "lxc_forward" THEN fwd ELSE y[k]]

\* rule records a YAML file may hold: TCP ingress rules on a single port
\* and on a range, with and without an lxc_forward key; a reversed range;
\* negative and zero ports; rules without a CIDR block, with two, and with
\* one that holds no "/"; rules of other protocols and of type egress
PortPairs == {<<22, 22>>, <<80, 443>>}

TcpIngress ==
  LET base == {YamlRule(PortName(pp[1], pp[2]), "ingress", pp[1], pp[2], "tcp",
                        <<Cidr10>>) : pp \in PortPairs}
  IN  base \cup {WithForward(y, 8022) : y \in base}

OtherRules ==
  { YamlRule("rev", "ingress", 443, 80, "tcp", <<Cidr10>>),
    YamlRule("neg", "ingress", -1, 0, "tcp", <<>>),
    YamlRule("ping", "ingress", -1, -1, "icmp", <<CidrAny>>),
    WithForward(YamlRule("out", "egress", 0, 65535, "tcp", <<CidrAny>>), 8022),
    YamlRule("pingout", "egress", 8, 0, "icmp", <<>>),
    YamlRule("dns", "ingress", 53, 53, "udp", <<CidrAny, Cidr10>>),
    WithForward(YamlRule("host", "ingress", 8080, 8080, "ICMP", <<CidrHost>>), 0),
    WithForward(YamlRule("fwdneg", "ingress", 0, 0, "tcp", <<Cidr10>>), -1) }

YamlRules == TcpIngress \cup OtherRules

RECURSIVE SeqsUpTo(_, _)
SeqsUpTo(S, n) ==
  IF n = 0 THEN {<<>>}
  ELSE LET shorter == SeqsUpTo(S, n - 1)
       IN  shorter \cup {Append(s, x) : s \in {q \in shorter : Len(q) = n - 1}, x \in S}

\* what the path of -config holds: nothing, text that is no such YAML
\* document, or a document with a list of rules
Inputs ==
  {[kind |-> "missing", rules |-> <<>>], [kind |-> "malformed", rules |-> <<>>]}
    \cup {[kind |-> "yaml", rules |-> rs] : rs \in SeqsUpTo(YamlRules, MaxRules)}

-----------------------------------------------------------------------------
(* type Rule, and yaml's decoding of one list entry into it                *)

Rule(y) ==
  [Name |-> y.name, Type |-> y.type, FromPort |-> y.from_port,
   ToPort |-> y.to_port, Protocol |-> y.protocol,
   CIDRBlocks |-> y.cidr_blocks, Description |-> y.description,
   LXCForward |-> IF "lxc_forward" \in DOMAIN y THEN y.lxc_forward ELSE 0,
   FormattedPortRange |-> "", LXCConnect |-> ""]

DecodeRules(ys) == [i \in DOMAIN ys |-> Rule(ys[i])]

-----------------------------------------------------------------------------
(* filterRules and the two filters of main                                 *)

\* the filtered slice of filterRules: rules[i] is appended, as it is after
\* the filter ran on it, when the filter returned true
RECURSIVE Filtered(_, _, _)
Filtered(after, keep, i) ==
  IF i > Len(after) THEN <<>>
  ELSE (IF keep[i] THEN <<after[i]>> ELSE <<>>) \o Filtered(after, keep, i + 1)

\* a terraformRules filter that leaves ICMP rules out
terraformFilter_SkipsIcmp(rule) == [keep |-> rule.Protocol # "icmp", rule |-> rule]

\* the filter of terraformRules: every rule, nothing written
terraformFilter(rule) == [keep |-> TRUE, rule |-> rule]

\* a portRange without the single-port form
portRange_AlwaysRange(rule) ==
  ":" \o Itoa(rule.FromPort) \o "-" \o Itoa(rule.ToPort)

\* portRange of the lxcRules filter: the range form, replaced by the
\* single-port form when the two ports are equal
portRange(rule) ==
  LET range == ":" \o Itoa(rule.FromPort) \o "-" \o Itoa(rule.ToPort)
  IN  IF rule.FromPort = rule.ToPort THEN ":" \o Itoa(rule.FromPort) ELSE range

\* a connectStr that takes only a forwarded port above 0
connectStr_PositiveForward(rule) ==
  IF rule.LXCForward > 0
    THEN rule.Protocol \o ":127.0.0.1:" \o Itoa(rule.LXCForward)
    ELSE rule.Protocol \o ":127.0.0.1" \o portRange(rule)

\* connectStr of the lxcRules filter: as portRange after the protocol and
\* the loopback address, replaced by the forwarded port when that is not 0
connectStr(rule) ==
  LET range == rule.Protocol \o ":127.0.0.1:" \o Itoa(rule.FromPort) \o "-"
                 \o Itoa(rule.ToPort)
      ports == IF rule.FromPort = rule.ToPort
                 THEN rule.Protocol \o ":127.0.0.1:" \o Itoa(rule.FromPort)
                 ELSE range
  IN  IF rule.LXCForward # 0
        THEN rule.Protocol \o ":127.0.0.1:" \o Itoa(rule.LXCForward)
        ELSE ports

\* a rejection of ICMP rules alone
lxcExcluded_IcmpOnly(rule) == rule.Protocol = "icmp"

\* whether the lxcRules filter rejects the rule (its first return)
lxcExcluded(rule) == rule.Protocol = "icmp" \/ rule.Type = "egress"

\* the filter of lxcRules: writes the two derived fields through the pointer
lxcFilter(rule) ==
  IF lxcExcluded(rule) THEN [keep |-> FALSE, rule |-> rule]
  ELSE [keep |-> TRUE,
        rule |-> [rule EXCEPT !.FormattedPortRange = portRange(rule),
                              !.LXCConnect = connectStr(rule)]]

\* the call filter(&rules[i]) of filterRules, `filter` naming the function
\* literal: what it returns, and the rule as it leaves it
Call(filter, rule) ==
  IF filter = "terraform" THEN terraformFilter(rule) ELSE lxcFilter(rule)

\* a filterRules whose filter gets a pointer to a copy of each rule
filterRules_OnCopies(rules, filter) ==
  LET res == [i \in DOMAIN rules |-> Call(filter, rules[i])]
  IN  [filtered |-> Filtered([i \in DOMAIN rules |-> res[i].rule],
                             [i \in DOMAIN rules |-> res[i].keep], 1),
       rules |-> rules]

\* filterRules(rules, filter): the filter gets a pointer to each element of
\* rules and may write to it; `rules` is the caller's slice afterwards
filterRules(rules, filter) ==
  LET res == [i \in DOMAIN rules |-> Call(filter, rules[i])]
      after == [i \in DOMAIN rules |-> res[i].rule]
      keep == [i \in DOMAIN rules |-> res[i].keep]
  IN  [filtered |-> Filtered(after, keep, 1), rules |-> after]

-----------------------------------------------------------------------------
(* The templates. A document is the sequence of pieces Execute writes,    *)
(* one Write on the file for each: a text node of the template (as left by *)
(* its trim markers) or the printed value of an action. A piece with       *)
(* ok = FALSE is where `index $rule.CIDRBlocks 0` fails on an empty list:  *)
(* nothing is written for it and Execute returns the error.                *)

Piece(text) == [text |-> text, ok |-> TRUE]
Broken == [text |-> "", ok |-> FALSE]

RECURSIVE Flatten(_)
Flatten(docs) == IF docs = <<>> THEN <<>> ELSE Head(docs) \o Flatten(Tail(docs))

\* the body of terraformTemplate's range, for one rule
terraformBlock(rule, sg) ==
  << Piece("\nresource \"aws_security_group_rule\" \""), Piece(rule.Name),
     Piece("\" {\n  type              = \""), Piece(rule.Type),
     Piece("\"\n  from_port         = "), Piece(Itoa(rule.FromPort)),
     Piece("\n  to_port           = "), Piece(Itoa(rule.ToPort)),
     Piece("\n  protocol          = \""), Piece(rule.Protocol),
     Piece("\"\n  security_group_id = data.aws_security_group."), Piece(sg),
     Piece(".id\n  cidr_blocks       = [\""), Piece(join(rule.CIDRBlocks, ",")),
     Piece("\"]\n  description       = \""), Piece(rule.Description),
     Piece("\"\n}\n") >>

terraformTemplate(cfg) ==
  Flatten([i \in DOMAIN cfg.Rules |->
             terraformBlock(cfg.Rules[i], cfg.SecurityGroupName)])

\* the body of lxcTemplate's range, for one rule: $cidr is assigned before
\* anything of the line is written
lxcLine(rule, name) ==
  IF rule.CIDRBlocks = <<>> THEN <<Broken>>
  ELSE << Piece("\nlxc config device add "), Piece(name), Piece(" "),
          Piece(rule.Name), Piece(" proxy listen="), Piece(rule.Protocol),
          Piece(":"), Piece(Str(splitAtSlash(rule.CIDRBlocks[1]))),
          Piece(rule.FormattedPortRange), Piece(" connect="),
          Piece(rule.LXCConnect) >>

lxcTemplate(cfg) ==
  <<Piece("#!/usr/bin/env bash\n")>>
  \o Flatten([i \in DOMAIN cfg.Rules |-> lxcLine(cfg.Rules[i], cfg.LXCName)])
  \o <<Piece("\n")>>

\* the body of lxdTemplate's range, for one rule
lxdDevice(rule) ==
  << Piece("\n  "), Piece(rule.Name), Piece(":\n    connect: "),
     Piece(rule.LXCConnect), Piece("\n    listen: "), Piece(rule.Protocol),
     Piece(":") >>
  \o (IF rule.CIDRBlocks = <<>> THEN <<Broken>>
      ELSE << Piece(Str(splitAtSlash(rule.CIDRBlocks[1]))),
              Piece(rule.FormattedPortRange),
              Piece("\n    type: proxy\n") >>)

lxdTemplate(cfg) ==
  <<Piece("\nconfig: {}\ndescription: \"\"\ndevices:")>>
  \o Flatten([i \in DOMAIN cfg.Rules |-> lxdDevice(cfg.Rules[i])])
  \o <<Piece("name: "), Piece(cfg.LXCName), Piece("\n")>>

\* index of the first piece that fails, 0 when none does
FirstBroken(doc) ==
  IF \A i \in DOMAIN doc : doc[i].ok THEN 0
  ELSE CHOOSE i \in DOMAIN doc : ~doc[i].ok /\ \A j \in 1..(i - 1) : doc[j].ok

\* the Writes that can be refused: those issued before the template fails.
\* A refused Write stores none of its bytes.
WritePoints(doc) ==
  IF FirstBroken(doc) = 0 THEN DOMAIN doc ELSE 1..(FirstBroken(doc) - 1)

\* Template.Execute(file, data) on a just created file whose write number
\* wfail (0: none) is refused: the text that reached the file, and err
Execute(doc, wfail) ==
  LET b == FirstBroken(doc)
      texts == [i \in DOMAIN doc |-> doc[i].text]
  IN  IF wfail # 0
        THEN [out |-> Concat(SubSeq(texts, 1, wfail - 1)), err |-> "write"]
      ELSE IF b # 0
        THEN [out |-> Concat(SubSeq(texts, 1, b)), err |-> "index out of range"]
      ELSE [out |-> Concat(texts), err |-> "nil"]

-----------------------------------------------------------------------------
(* main                                                                    *)

VARIABLES
  program,         \* which of the two programs runs: "main" or "lxd"
  input,           \* what the -config path holds
  pc,              \* the statement of main to run next
  config,          \* the Config decoded into
  terraformRules,  \* the slice of that name
  lxcRules,        \* the slice of that name
  failure,         \* the error main returned on, "nil" while it has not
  fs,              \* the output paths: exists, content, executable bit
  open,            \* the paths with an open file handle
  log,             \* the lines printed to standard output
  created,         \* the output paths os.Create has returned a file for, in order
  chmodResult,     \* what os.Chmod returned: "pending" until called
  executed,        \* the templates Execute was called on, in order
  written,         \* the templates whose Execute returned nil
  handed           \* the rules each Execute call was given

vars == <<program, input, pc, config, terraformRules, lxcRules, failure, fs, open,
          log, created, chmodResult, executed, written, handed>>

\* the flags' defaults
yamlFilePath      == "network.yaml"
firewallScript    == "firewall.sh"
terraformScript   == "sg_rules.tf"
lxdConfig         == "lxd_config.yaml"
container         == "csls"
securityGroupName == "northflier"

OutputPaths == {terraformScript, firewallScript, lxdConfig}
Templates == {"terraform", "lxc", "lxd"}

\* the output paths as the run finds them: the Terraform file and the LXD
\* profile of an earlier run, no script yet
InitFS ==
  [p \in OutputPaths |->
     IF p = firewallScript
       THEN [exists |-> FALSE, content |-> "", exec |-> FALSE]
       ELSE [exists |-> TRUE, content |-> "stale", exec |-> FALSE]]

\* a main that creates, writes and closes one output after the other
main_OneByOne(prog) ==
  IF prog = "main"
    THEN <<"open", "decode", "filter_tf", "filter_lxc", "parse",
           "create_tf", "exec_tf", "create_lxc", "chmod", "exec_lxc", "exit">>
    ELSE <<"open", "decode", "filter_tf", "filter_lxc", "assign", "parse",
           "create_tf", "exec_tf", "create_lxc", "chmod", "exec_lxc",
           "create_lxd", "exec_lxd", "success", "exit">>

\* a main that calls os.Chmod once the script is rendered
main_ChmodAfterRender(prog) ==
  IF prog = "main"
    THEN <<"open", "decode", "filter_tf", "filter_lxc", "parse",
           "create_tf", "create_lxc", "exec_tf", "exec_lxc", "chmod", "exit">>
    ELSE <<"open", "decode", "filter_tf", "filter_lxc", "assign", "parse",
           "create_tf", "create_lxc", "create_lxd",
           "exec_tf", "exec_lxc", "chmod", "exec_lxd", "success", "exit">>

\* the statements of main, in program order
main(prog) ==
  IF prog = "main"
    THEN <<"open", "decode", "filter_tf", "filter_lxc", "parse",
           "create_tf", "create_lxc", "chmod",
           "exec_tf", "exec_lxc", "exit">>
    ELSE <<"open", "decode", "filter_tf", "filter_lxc", "assign", "parse",
           "create_tf", "create_lxc", "chmod", "create_lxd",
           "exec_tf", "exec_lxc", "exec_lxd", "success", "exit">>

\* the statement after `step`
Then(step) ==
  LET order == main(program)
      i == CHOOSE k \in DOMAIN order : order[k] = step
  IN  order[i + 1]

\* an error branch without its return
Return_FallThrough(step) == Then(step)

\* where `return` in `step` leads: to the deferred calls
Return(step) == "exit"

Init ==
  /\ program \in {"main", "lxd"}
  /\ input \in Inputs
  /\ pc = "open"
  /\ config = [Rules |-> <<>>, LXCName |-> container,
               SecurityGroupName |-> securityGroupName]
  /\ terraformRules = <<>>
  /\ lxcRules = <<>>
  /\ failure = "nil"
  /\ fs = InitFS
  /\ open = {}
  /\ log = <<>>
  /\ created = <<>>
  /\ chmodResult = "pending"
  /\ executed = <<>>
  /\ written = {}
  /\ handed = [t \in Templates |-> <<>>]

\* a failed call: its message is printed and main returns
Fail(err, msg) ==
  /\ failure' = err
  /\ log' = Append(log, msg)
  /\ pc' = Return(pc)

\* os.Open(yamlFilePath)
OpenInput ==
  /\ pc = "open"
  /\ IF input.kind = "missing"
       THEN Fail("open", "Failed to open YAML file:") /\ open' = open
       ELSE /\ open' = open \cup {yamlFilePath}
            /\ pc' = Then(pc)
            /\ UNCHANGED <<failure, log>>
  /\ UNCHANGED <<program, input, config, terraformRules, lxcRules, fs,
                 created, chmodResult, executed, written, handed>>

\* decoder.Decode(&config)
Decode ==
  /\ pc = "decode"
  /\ IF input.kind = "malformed"
       THEN Fail("yaml", "Failed to parse YAML:") /\ config' = config
       ELSE /\ config' = [config EXCEPT !.Rules = DecodeRules(input.rules)]
            /\ pc' = Then(pc)
            /\ UNCHANGED <<failure, log>>
  /\ UNCHANGED <<program, input, terraformRules, lxcRules, fs, open,
                 created, chmodResult, executed, written, handed>>

\* terraformRules := filterRules(config.Rules, ...)
FilterTerraform ==
  /\ pc = "filter_tf"
  /\ LET r == filterRules(config.Rules, "terraform")
     IN  /\ terraformRules' = r.filtered
         /\ config' = [config EXCEPT !.Rules = r.rules]
  /\ pc' = Then(pc)
  /\ UNCHANGED <<program, input, lxcRules, failure, fs, open, log,
                 created, chmodResult, executed, written, handed>>

\* lxcRules := filterRules(config.Rules, ...)
FilterLXC ==
  /\ pc = "filter_lxc"
  /\ LET r == filterRules(config.Rules, "lxc")
     IN  /\ lxcRules' = r.filtered
         /\ config' = [config EXCEPT !.Rules = r.rules]
  /\ pc' = Then(pc)
  /\ UNCHANGED <<program, input, terraformRules, failure, fs, open, log,
                 created, chmodResult, executed, written, handed>>

\* config.Rules = terraformRules
AssignTerraform ==
  /\ pc = "assign"
  /\ config' = [config EXCEPT !.Rules = terraformRules]
  /\ pc' = Then(pc)
  /\ UNCHANGED <<program, input, terraformRules, lxcRules, failure, fs, open, log,
                 created, chmodResult, executed, written, handed>>

\* template.New(...).Funcs(...).Parse(...) of each template: the templates
\* are constants that parse, so err is nil each time
PrepareTemplates ==
  /\ pc = "parse"
  /\ pc' = Then(pc)
  /\ UNCHANGED <<program, input, config, terraformRules, lxcRules, failure, fs,
                 open, log, created, chmodResult, executed, written, handed>>

\* os.Create(path): the file is created or truncated and stays open
Create(path) ==
  /\ \E ok \in BOOLEAN :
       IF ok
         THEN /\ fs' = [fs EXCEPT ![path] =
                          [exists |-> TRUE, content |-> "", exec |-> @.exec]]
              /\ open' = open \cup {path}
              /\ created' = Append(created, path)
              /\ pc' = Then(pc)
              /\ UNCHANGED <<failure, log>>
         ELSE /\ Fail("create", "Failed to create output file:")
              /\ UNCHANGED <<fs, open, created>>
  /\ UNCHANGED <<program, input, config, terraformRules, lxcRules,
                 chmodResult, executed, written, handed>>

CreateTerraform == pc = "create_tf" /\ Create(terraformScript)

CreateScript == pc = "create_lxc" /\ Create(firewallScript)

CreateLxd == pc = "create_lxd" /\ Create(lxdConfig)

\* the message printed for a failed os.Chmod
ChmodWarning(prog) ==
  IF prog = "main" THEN <<"Failed to set execute bit on">> ELSE <<>>

\* os.Chmod(firewallScript, 0o755)
Chmod ==
  /\ pc = "chmod"
  /\ \E ok \in BOOLEAN :
       IF ok
         THEN /\ fs' = [fs EXCEPT ![firewallScript].exec = TRUE]
              /\ chmodResult' = "ok"
              /\ log' = log
         ELSE /\ fs' = fs
              /\ chmodResult' = "failed"
              /\ log' = log \o ChmodWarning(program)
  /\ pc' = Then(pc)
  /\ UNCHANGED <<program, input, config, terraformRules, lxcRules, failure, open,
                 created, executed, written, handed>>

\* tmpl.Execute(file, data), file being the one created at `path`
Run(tmpl, doc, rules, path, msg) ==
  /\ \E wfail \in {0} \cup WritePoints(doc) :
       LET res == Execute(doc, wfail)
       IN  /\ fs' = [fs EXCEPT ![path].content = res.out]
           /\ IF res.err = "nil"
                THEN /\ written' = written \cup {tmpl}
                     /\ pc' = Then(pc)
                     /\ UNCHANGED <<failure, log>>
                ELSE /\ Fail(res.err, msg)
                     /\ written' = written
  /\ executed' = Append(executed, tmpl)
  /\ handed' = [handed EXCEPT ![tmpl] = rules]
  /\ UNCHANGED <<program, input, terraformRules, lxcRules, open, created,
                 chmodResult>>

\* the data of tmpl.Execute
terraformData ==
  IF program = "main"
    THEN [Rules |-> terraformRules, LXCName |-> config.LXCName,
          SecurityGroupName |-> config.SecurityGroupName]
    ELSE config

\* the data of lxcTmpl.Execute; the newer program first sets
\* config.Rules = lxcRules
lxcData ==
  IF program = "main"
    THEN [Rules |-> lxcRules, LXCName |-> config.LXCName,
          SecurityGroupName |-> ""]
    ELSE [config EXCEPT !.Rules = lxcRules]

ExecuteTerraform ==
  /\ pc = "exec_tf"
  /\ Run("terraform", terraformTemplate(terraformData), terraformData.Rules,
         terraformScript, "Failed to execute template:")
  /\ config' = config

ExecuteLXC ==
  /\ pc = "exec_lxc"
  /\ Run("lxc", lxcTemplate(lxcData), lxcData.Rules, firewallScript,
         IF program = "main" THEN "Failed to execute LXC template:"
                             ELSE "Failed to execute template:")
  /\ config' = IF program = "main" THEN config ELSE lxcData

ExecuteLXD ==
  /\ pc = "exec_lxd"
  /\ Run("lxd", lxdTemplate(config), config.Rules, lxdConfig,
         "Failed to execute template:")
  /\ config' = config

SuccessMessage == "Terraform, LXC and LXD configurations generated successfully"

\* fmt.Println of the success message
ReportSuccess ==
  /\ pc = "success"
  /\ log' = Append(log, SuccessMessage)
  /\ pc' = Then(pc)
  /\ UNCHANGED <<program, input, config, terraformRules, lxcRules, failure, fs,
                 open, created, chmodResult, executed, written, handed>>

\* main returns: the deferred Close calls run
Exit ==
  /\ pc = "exit"
  /\ open' = {}
  /\ pc' = "done"
  /\ UNCHANGED <<program, input, config, terraformRules, lxcRules, failure, fs,
                 log, created, chmodResult, executed, written, handed>>

Next ==
  \/ OpenInput
  \/ Decode
  \/ FilterTerraform
  \/ FilterLXC
  \/ AssignTerraform
  \/ PrepareTemplates
  \/ CreateTerraform
  \/ CreateScript
  \/ Chmod
  \/ CreateLxd
  \/ ExecuteTerraform
  \/ ExecuteLXC
  \/ ExecuteLXD
  \/ ReportSuccess
  \/ Exit

Spec == Init /\ [][Next]_vars

-----------------------------------------------------------------------------
(* Properties                                                              *)

\* the rule set as decoded from the input file
Decoded == DecodeRules(input.rules)

\* a rule without its two derived fields
InputFields(rule) == [rule EXCEPT !.FormattedPortRange = "", !.LXCConnect = ""]

\* a rule of a protocol other than "icmp" and a type other than "egress"
Qualifies(rule) == rule.Protocol # "icmp" /\ rule.Type # "egress"

\* the port range as the specification words it
ExpectedRange(rule) ==
  IF rule.FromPort = rule.ToPort
    THEN ":" \o Itoa(rule.FromPort)
    ELSE ":" \o Itoa(rule.FromPort) \o "-" \o Itoa(rule.ToPort)

Elements(seq) == {seq[i] : i \in DOMAIN seq}

IsPrefix(s, t) == Len(s) <= Len(t) /\ s = SubSeq(t, 1, Len(s))

\* the input was decoded and terraformRules has been assigned
TerraformComputed ==
  pc \notin {"open", "decode", "filter_tf"} /\ failure \notin {"open", "yaml"}

\* the input was decoded and both slices have been assigned
ViewsComputed == TerraformComputed /\ pc # "filter_lxc"

\* the program is at the statement that follows the two filterRules calls
AfterFilters == pc = (IF program = "main" THEN "parse" ELSE "assign")

\* C1: the rules handed to the shell-script and to the profile template are
\* the decoded rules whose protocol is not "icmp" and whose type is not
\* "egress", in input order, and both templates get the same rules.
C1_FilteredView ==
  ViewsComputed =>
    /\ [i \in DOMAIN lxcRules |-> InputFields(lxcRules[i])]
         = SelectSeq(Decoded, Qualifies)
    /\ \A i \in DOMAIN executed :
         executed[i] \in {"lxc", "lxd"} => handed[executed[i]] = lxcRules

C1_Witness ==
  /\ "lxd" \in written
  /\ Len(Decoded) = 2
  /\ Decoded[1].Type = "egress"
  /\ Len(lxcRules) = 1
  /\ handed["lxc"] = handed["lxd"]
  /\ InputFields(handed["lxd"][1]) = Decoded[2]

\* C2: the rules handed to the Terraform template are the decoded rules,
\* all of them, in input order, whether or not the shell-script filter has
\* run.
C2_TerraformGetsEveryRule ==
  TerraformComputed =>
    /\ terraformRules = Decoded
    /\ "terraform" \in Elements(executed) => handed["terraform"] = Decoded

C2_Witness ==
  /\ "terraform" \in written
  /\ Len(handed["terraform"]) = 2
  /\ handed["terraform"][1].Protocol = "icmp"
  /\ handed["terraform"][2].LXCConnect = ""
  /\ Len(lxcRules) = 1
  /\ lxcRules[1].LXCConnect = "tcp:127.0.0.1:8022"
  /\ InputFields(lxcRules[1]) = handed["terraform"][2]

\* C3: every rule of the shell-script/profile view carries ":<from>" as its
\* port range when its two ports are equal and ":<from>-<to>" otherwise,
\* and every qualifying rule gets one.
C3_PortRangeFormat ==
  ViewsComputed =>
    /\ \A i \in DOMAIN lxcRules :
         lxcRules[i].FormattedPortRange = ExpectedRange(lxcRules[i])
    /\ Len(lxcRules) = Len(SelectSeq(Decoded, Qualifies))

C3_Witness ==
  /\ ViewsComputed
  /\ Len(lxcRules) = 2
  /\ lxcRules[1].FromPort = 443 /\ lxcRules[1].ToPort = 80
  /\ lxcRules[1].FormattedPortRange = ":443-80"
  /\ lxcRules[2].FromPort = 22 /\ lxcRules[2].ToPort = 22
  /\ lxcRules[2].FormattedPortRange = ":22"

\* C4: a rule of the view with a forwarded port other than 0 connects to
\* "<protocol>:127.0.0.1:<forwarded port>" whatever its ports are; one
\* without connects to "<protocol>:127.0.0.1" followed by its port range;
\* the port range is that of the rule's two ports either way.
C4_ConnectEndpoint ==
  ViewsComputed =>
    \A i \in DOMAIN lxcRules :
      LET r == lxcRules[i]
      IN  /\ r.LXCForward # 0 =>
               r.LXCConnect = r.Protocol \o ":127.0.0.1:" \o Itoa(r.LXCForward)
          /\ r.LXCForward = 0 =>
               r.LXCConnect = r.Protocol \o ":127.0.0.1" \o r.FormattedPortRange
          /\ r.FormattedPortRange = ExpectedRange([r EXCEPT !.LXCForward = 0])

C4_Witness ==
  /\ ViewsComputed
  /\ Len(lxcRules) = 2
  /\ lxcRules[1].LXCForward = 8022 /\ lxcRules[1].FromPort = 80
  /\ lxcRules[1].LXCConnect = "tcp:127.0.0.1:8022"
  /\ lxcRules[1].FormattedPortRange = ":80-443"
  /\ lxcRules[2].LXCForward = 0 /\ lxcRules[2].FromPort = 80
  /\ lxcRules[2].LXCConnect = "tcp:127.0.0.1:80-443"

\* C5: no template fails on the rules it is given: an Execute that was
\* called returned nil unless a write to the file was refused.
C5_RenderingNeverFailsOnData ==
  \A i \in DOMAIN executed : executed[i] \in written \/ failure = "write"

\* C6: once a call has failed fatally nothing more is created, truncated,
\* written or printed; a failure to open or decode the input leaves the
\* output paths as they were; an output written in full keeps its content;
\* success is never printed after a failure.
C6_NothingAfterFatalFailure ==
  [][ /\ failure # "nil" =>
           /\ fs' = fs /\ log' = log /\ created' = created
           /\ executed' = executed /\ written' = written
      /\ failure' \in {"open", "yaml"} => fs' = InitFS
      /\ \A p \in OutputPaths :
           (\E t \in written : p = (CASE t = "terraform" -> terraformScript
                                      [] t = "lxc" -> firewallScript
                                      [] t = "lxd" -> lxdConfig))
             => fs'[p] = fs[p]
      /\ failure' # "nil" => SuccessMessage \notin Elements(log') ]_vars

C6_Witness ==
  /\ pc = "done"
  /\ failure = "index out of range"
  /\ written = {"terraform"}
  /\ executed = <<"terraform", "lxc">>
  /\ fs[terraformScript].content # ""
  /\ fs[lxdConfig].content = ""
  /\ program = "lxd"

\* C7: a failed os.Chmod is reported on standard output.
C7_ChmodFailureReported ==
  chmodResult = "failed" => "Failed to set execute bit on" \in Elements(log)

\* C8 as stated: at most one output file is open at any time.
C8_OneOutputOpenAtATime == Cardinality(open \cap OutputPaths) <= 1

\* the order of the os.Create calls and of the Execute calls
CreateOrder ==
  IF program = "main" THEN <<terraformScript, firewallScript>>
  ELSE <<terraformScript, firewallScript, lxdConfig>>

ExecuteOrder ==
  IF program = "main" THEN <<"terraform", "lxc">>
  ELSE <<"terraform", "lxc", "lxd">>

\* C8 as amended: the output files are created one after another, Terraform
\* file, script, profile, all of them before anything is rendered; each stays
\* open until main returns; each is then written at most once, in that order.
C8_AllCreatedThenWritten ==
  /\ IsPrefix(created, CreateOrder)
  /\ IsPrefix(executed, ExecuteOrder)
  /\ executed # <<>> => created = CreateOrder
  /\ pc # "done" => Elements(created) \subseteq open

C8_Witness ==
  /\ open \cap OutputPaths = OutputPaths
  /\ executed = <<"terraform">>
  /\ fs[firewallScript].content = ""
  /\ fs[lxdConfig].content = ""

\* C9 as stated: os.Chmod is called on the script only once the script has
\* been rendered in full.
C9_ChmodOnlyAfterRender == chmodResult # "pending" => "lxc" \in written

\* C9 as amended: os.Chmod is called right after the script file has been
\* created and before anything is rendered, so on an empty script; it is not
\* called when the script file was not created.
C9_ChmodAfterCreateBeforeRender ==
  /\ chmodResult # "pending" => firewallScript \in Elements(created)
  /\ (firewallScript \in Elements(created) /\ chmodResult = "pending")
       => pc = "chmod"
  /\ executed # <<>> => chmodResult # "pending"
  /\ fs[firewallScript].exec => chmodResult = "ok"

C9_Witness ==
  /\ chmodResult = "ok"
  /\ fs[firewallScript].exec
  /\ fs[firewallScript].content = ""
  /\ executed = <<>>
  /\ pc = "done"

\* C10 as stated: once both views are computed the decoded rule set is as
\* it was decoded.
C10_RuleSetUntouched == AfterFilters => config.Rules = Decoded

\* C10 as amended: once both views are computed, every rule of the decoded
\* rule set has the input fields it was decoded with; a rule the
\* shell-script view excludes is unchanged, a rule it includes has had its
\* two derived fields set in place; the Terraform view, copied before, holds
\* no derived field.
C10_OnlyDerivedFieldsWritten ==
  AfterFilters =>
    /\ Len(config.Rules) = Len(Decoded)
    /\ \A i \in DOMAIN Decoded :
         /\ InputFields(config.Rules[i]) = Decoded[i]
         /\ ~Qualifies(Decoded[i]) => config.Rules[i] = Decoded[i]
         /\ Qualifies(Decoded[i]) =>
              /\ config.Rules[i].FormattedPortRange = ExpectedRange(Decoded[i])
              /\ config.Rules[i].LXCConnect # ""
              /\ config.Rules[i] \in Elements(lxcRules)
    /\ terraformRules = Decoded

C10_Witness ==
  /\ AfterFilters
  /\ Len(Decoded) = 2
  /\ config.Rules[1] = Decoded[1]
  /\ config.Rules[1].Protocol = "icmp"
  /\ config.Rules[2] # Decoded[2]
  /\ config.Rules[2].FormattedPortRange = ":22"
  /\ config.Rules[2].LXCConnect = "tcp:127.0.0.1:8022"

=============================================================================
